---- MODULE Spec2Model ----
(***************************************************************************)
(* Model of pypostester: the indicator registry, the input validators,     *)
(* the funding-curve builder and the PositionBacktester engine.            *)
(*                                                                         *)
(* Python floats are modelled as exact rationals <<n, d>> (d > 0, lowest   *)
(* terms); the float NaN is the pair <<0, 0>>.  Timestamps are integers    *)
(* counting days.                                                          *)
(***************************************************************************)
EXTENDS Integers, Sequences, FiniteSets, TLC

VARIABLES
    _indicators,         \* IndicatorRegistry._indicators: ordered dict, as a sequence of classes
    _sorted_indicators,  \* IndicatorRegistry._sorted_indicators
    hashOrder,           \* iteration order of Python sets of names in this process
    engines,             \* the PositionBacktester instances: Engine -> fields of self
    call,                \* the last public call and its arguments
    outcome              \* what the last public call did: error raised, stages reached, result

vars == <<_indicators, _sorted_indicators, hashOrder, engines, call, outcome>>

----------------------------------------------------------------------------
(* Bounds *)

MaxRows == 3
MaxInputRows == 2
MaxRequires == 2
MaxSelection == 2
MaxContextRows == 2
MaxTableRows == 2

----------------------------------------------------------------------------
(* Sequences *)

Range(s) == {s[i] : i \in 1..Len(s)}

Last(s) == s[Len(s)]

Front(s) == SubSeq(s, 1, Len(s) - 1)

IndexOf(s, x) == CHOOSE i \in 1..Len(s) : s[i] = x

SeqsUpTo(S, n) == UNION {[1..k -> S] : k \in 0..n}

Perms(S) == {p \in [1..Cardinality(S) -> S] : Range(p) = S}

RECURSIVE SelectSeqBy(_, _)
SelectSeqBy(s, S) ==
    IF s = <<>> THEN <<>>
    ELSE IF Head(s) \in S THEN <<Head(s)>> \o SelectSeqBy(Tail(s), S)
    ELSE SelectSeqBy(Tail(s), S)

----------------------------------------------------------------------------
(* Python float arithmetic: exact rationals <<n, d>> with d > 0, the two     *)
(* infinities <<1, 0>> and <<-1, 0>>, and NaN <<0, 0>>                       *)

Abs(x) == IF x < 0 THEN -x ELSE x

RECURSIVE GCD(_, _)
GCD(a, b) == IF b = 0 THEN a ELSE GCD(b, a % b)

NaN == <<0, 0>>

Inf == <<1, 0>>

IsNaN(x) == x = NaN

IsInf(x) == x[2] = 0 /\ x[1] # 0

\* n / d; a non-zero numerator over zero is an infinity, 0 / 0 is NaN
R(n, d) ==
    IF d = 0 THEN (IF n > 0 THEN Inf ELSE IF n < 0 THEN <<-1, 0>> ELSE NaN)
    ELSE LET g == GCD(Abs(n), Abs(d))
             s == IF d < 0 THEN -1 ELSE 1
         IN  <<(s * n) \div g, (s * d) \div g>>

Zero == <<0, 1>>
One == <<1, 1>>

RNeg(x) == <<-x[1], x[2]>>

\* 1 / x, with 1 / 0 = inf and 1 / inf = 0
RInv(x) ==
    IF IsNaN(x) THEN NaN ELSE IF IsInf(x) THEN Zero ELSE IF x[1] = 0 THEN Inf ELSE R(x[2], x[1])

RAdd(x, y) ==
    IF IsNaN(x) \/ IsNaN(y) THEN NaN
    ELSE IF IsInf(x) /\ IsInf(y) THEN (IF x = y THEN x ELSE NaN)
    ELSE IF IsInf(x) THEN x
    ELSE IF IsInf(y) THEN y
    ELSE LET g == GCD(x[2], y[2])
         IN  R(x[1] * (y[2] \div g) + y[1] * (x[2] \div g), (x[2] \div g) * y[2])
RSub(x, y) == RAdd(x, RNeg(y))
RMul(x, y) ==
    IF IsNaN(x) \/ IsNaN(y) THEN NaN
    ELSE IF IsInf(x) \/ IsInf(y) THEN R(x[1] * y[1], 0)
    ELSE LET g1 == GCD(Abs(x[1]), y[2])
             g2 == GCD(Abs(y[1]), x[2])
         IN  R((x[1] \div g1) * (y[1] \div g2), (x[2] \div g2) * (y[2] \div g1))
RDiv(x, y) == RMul(x, RInv(y))
RAbs(x) == <<Abs(x[1]), x[2]>>
\* every ordered comparison with NaN is false
RLt(x, y) ==
    /\ ~IsNaN(x) /\ ~IsNaN(y) /\ x # y
    /\ IF IsInf(x) \/ IsInf(y) THEN x = RNeg(Inf) \/ y = Inf
       ELSE x[1] * y[2] < y[1] * x[2]
RGt(x, y) == RLt(y, x)

----------------------------------------------------------------------------
(* Indicator classes.  A class is a record: its name, its requires set, the *)
(* Python type of the value its calculate returns and, when that is a      *)
(* table, the names of the table's columns.                                *)

IndicatorClass(n, req, ret, cols) ==
    [name |-> n, requires |-> req, returns |-> ret, columns |-> cols]

TotalReturn == IndicatorClass("total_return", {}, "float", {})
AnnualReturn == IndicatorClass("annual_return", {"total_return"}, "float", {})
Volatility == IndicatorClass("volatility", {}, "float", {})
SharpeRatio == IndicatorClass("sharpe_ratio", {"annual_return", "volatility"}, "float", {})
MaxDrawdown == IndicatorClass("max_drawdown", {}, "float", {})
MaxDrawdownDuration == IndicatorClass("max_drawdown_duration", {"max_drawdown"}, "float", {})
WinRate == IndicatorClass("win_rate", {}, "float", {})
AvgDrawdown == IndicatorClass("avg_drawdown", {}, "float", {})
ProfitLossRatio == IndicatorClass("profit_loss_ratio", {}, "float", {})

\* inspect.getmembers returns the members of the module sorted by (class) name
BuiltinClasses ==
    <<AnnualReturn, AvgDrawdown, MaxDrawdown, MaxDrawdownDuration, ProfitLossRatio,
      SharpeRatio, TotalReturn, Volatility, WinRate>>

BuiltinNames == {BuiltinClasses[i].name : i \in 1..Len(BuiltinClasses)}

\* names a caller's custom indicators take, and a name that is never registered
CustomNames == {"c1", "c2"}
Ghost == "ghost"

Names == BuiltinNames \cup CustomNames \cup {Ghost}

\* iteration order of a Python set of names: hash order, fixed within a process.
\* Built-in names are listed in a fixed position: all of them are visited before
\* any custom class, so their relative order in a set is never observed.
BuiltinOrder ==
    <<"total_return", "annual_return", "volatility", "sharpe_ratio", "max_drawdown",
      "max_drawdown_duration", "win_rate", "avg_drawdown", "profit_loss_ratio">>

SetIter(S, order) ==
    IF S = {} THEN <<>> ELSE SelectSeqBy(BuiltinOrder \o order \o <<Ghost>>, S)

----------------------------------------------------------------------------
(* IndicatorRegistry *)

Keys(indicators) == {indicators[i].name : i \in 1..Len(indicators)}

KeySeq(indicators) == [i \in 1..Len(indicators) |-> indicators[i].name]

Lookup(indicators, n) == indicators[CHOOSE i \in 1..Len(indicators) : indicators[i].name = n]

\* a store that adds an entry even when the key is already present
DictSet_append(indicators, cls) == Append(indicators, cls)

\* self._indicators[indicator.name] = indicator.__class__ : a dict keeps the
\* position of a key that is already present
DictSet(indicators, cls) ==
    IF cls.name \in Keys(indicators)
    THEN [i \in 1..Len(indicators) |->
            IF indicators[i].name = cls.name THEN cls ELSE indicators[i]]
    ELSE Append(indicators, cls)

RECURSIVE visit(_, _, _, _)
RECURSIVE visitDeps(_, _, _, _)
\* a visit that appends the name before it visits the dependencies
visit_preorder(indicator_name, st, indicators, order) ==
    IF indicator_name \in st.visited THEN st
    ELSE LET st1 == [st EXCEPT !.visited = @ \cup {indicator_name},
                               !.sorted = Append(@, indicator_name)]
             dependencies == SetIter(Lookup(indicators, indicator_name).requires, order)
         IN  visitDeps(dependencies, st1, indicators, order)

\* a visit that appends a name again each time it meets it already visited
visit_again(indicator_name, st, indicators, order) ==
    IF indicator_name \in st.visited THEN [st EXCEPT !.sorted = Append(@, indicator_name)]
    ELSE LET st1 == [st EXCEPT !.visited = @ \cup {indicator_name}]
             dependencies == SetIter(Lookup(indicators, indicator_name).requires, order)
             st2 == visitDeps(dependencies, st1, indicators, order)
         IN  [st2 EXCEPT !.sorted = Append(@, indicator_name)]

\* st = [visited, sorted]: the closure variables of _sort_indicators_by_dependency
visit(indicator_name, st, indicators, order) ==
    IF indicator_name \in st.visited THEN st
    ELSE LET st1 == [st EXCEPT !.visited = @ \cup {indicator_name}]
             dependencies == SetIter(Lookup(indicators, indicator_name).requires, order)
             st2 == visitDeps(dependencies, st1, indicators, order)
         IN  [st2 EXCEPT !.sorted = Append(@, indicator_name)]

visitDeps(deps, st, indicators, order) ==
    IF deps = <<>> THEN st
    ELSE LET dep == Head(deps)
             st1 == IF dep \in Keys(indicators) THEN visit(dep, st, indicators, order) ELSE st
         IN  visitDeps(Tail(deps), st1, indicators, order)

RECURSIVE visitAll(_, _, _, _)
visitAll(names, st, indicators, order) ==
    IF names = <<>> THEN st
    ELSE visitAll(Tail(names), visit(Head(names), st, indicators, order), indicators, order)

\* an order that ignores registration: the names in ascending order
sort_indicators_by_name(indicators, order) ==
    SelectSeqBy(<<"annual_return", "avg_drawdown", "c1", "c2", "ghost", "max_drawdown",
                  "max_drawdown_duration", "profit_loss_ratio", "sharpe_ratio",
                  "total_return", "volatility", "win_rate">>, Keys(indicators))

sort_indicators_by_dependency(indicators, order) ==
    visitAll(KeySeq(indicators), [visited |-> {}, sorted |-> <<>>], indicators, order).sorted

RECURSIVE register_builtin_indicators(_, _)
register_builtin_indicators(classes, indicators) ==
    IF classes = <<>> THEN indicators
    ELSE register_builtin_indicators(Tail(classes), DictSet(indicators, Head(classes)))

\* sorted(self._indicators.keys())
SortNames(S) ==
    IF S = {} THEN <<>>
    ELSE LET AllNames == <<"annual_return", "avg_drawdown", "c1", "c2", "ghost", "max_drawdown",
                           "max_drawdown_duration", "profit_loss_ratio", "sharpe_ratio",
                           "total_return", "volatility", "win_rate">>
         IN  SelectSeqBy(AllNames, S)

available_indicators(indicators) == SortNames(Keys(indicators))

----------------------------------------------------------------------------
(* Python values handed to the validators *)

Returned(v) == [error |-> "none", value |-> v]
Raised(e) == [error |-> e, value |-> <<>>]

\* a Python number or other object: its type and, for a number, its value
PyInt(n) == [py |-> "int", v |-> R(n, 1)]
PyFloat(x) == [py |-> "float", v |-> x]
PyStr == [py |-> "str", v |-> Zero]

\* the indicators argument: the string "all", another string, or a list of names
All == [py |-> "str", v |-> <<"all">>]
NameList(l) == [py |-> "list", v |-> l]
Str(x) == [py |-> "str", v |-> <<x>>]

\* a table: the columns it has, whether its time column has a temporal dtype, its rows
DataFrame(cols, temp, rs) == [py |-> "DataFrame", columns |-> cols, temporal |-> temp, rows |-> rs]
NotAFrame == [py |-> "NoneType", columns |-> {}, temporal |-> FALSE, rows |-> <<>>]

TimesOf(rows) == {rows[i].time : i \in 1..Len(rows)}

is_sorted(rows) == \A i \in 1..(Len(rows) - 1) : rows[i].time <= rows[i + 1].time

\* df.sort("time"): rows with equal times may come out in any order
SortOutcomes(rows) ==
    {s \in {[i \in 1..Len(rows) |-> rows[p[i]]] : p \in Perms(1..Len(rows))} : is_sorted(s)}

----------------------------------------------------------------------------
(* utils/validation.py *)

REQUIRED_COLUMNS(data_type) ==
    IF data_type = "close" THEN {"time", "close"} ELSE {"time", "position"}

validate_commission(commission) ==
    IF commission.py \notin {"int", "float"} THEN Raised("ValidationError")
    ELSE IF RLt(commission.v, Zero) \/ RGt(commission.v, One) THEN Raised("ValidationError")
    ELSE Returned(<<>>)

validate_annual_trading_days(days) ==
    IF days.py # "int" THEN Raised("ValidationError")
    ELSE IF ~RGt(days.v, Zero) THEN Raised("ValidationError")
    ELSE IF RGt(days.v, R(365, 1)) THEN Raised("ValidationError")
    ELSE Returned(<<>>)

RECURSIVE collect_required(_, _, _, _)
\* the while loop over pending_indicators; get_indicator raises ValueError for
\* a name that is not registered
collect_required(required_indicators, pending_indicators, indicators, order) ==
    IF pending_indicators = <<>> THEN Returned(required_indicators)
    ELSE LET indicator == Last(pending_indicators)
             rest == Front(pending_indicators)
         IN  IF indicator \notin Keys(indicators) THEN Raised("ValueError")
             ELSE LET requires == Lookup(indicators, indicator).requires
                      added == SetIter(requires \ required_indicators, order)
                  IN  collect_required(required_indicators \cup requires, rest \o added,
                                       indicators, order)

validate_indicators(selection, indicators, sorted_indicators, order) ==
    IF selection # All /\ selection.py # "list" THEN Raised("ValidationError")
    ELSE IF selection = All THEN Returned(sorted_indicators)
    ELSE IF Range(selection.v) \ Range(available_indicators(indicators)) # {}
         THEN Raised("ValidationError")
    ELSE LET c == collect_required(Range(selection.v), selection.v, indicators, order)
         IN  IF c.error # "none" THEN c
             ELSE Returned(SelectSeqBy(sorted_indicators, c.value))

\* a validator that also rejects the position values -1 and 1
validate_and_convert_input_open(df, data_type) ==
    IF df.py # "DataFrame" THEN {Raised("ValidationError")}
    ELSE IF REQUIRED_COLUMNS(data_type) \ df.columns # {} THEN {Raised("ValidationError")}
    ELSE IF ~df.temporal THEN {Raised("ValidationError")}
    ELSE LET sorted == IF is_sorted(df.rows) THEN {df.rows} ELSE SortOutcomes(df.rows)
             bad(rows) == \E i \in 1..Len(rows) :
                             \/ ~RGt(rows[i].position, R(-1, 1))
                             \/ ~RLt(rows[i].position, One)
         IN  IF data_type = "position" /\ bad(df.rows) THEN {Raised("ValidationError")}
             ELSE {Returned([df EXCEPT !.rows = rows]) : rows \in sorted}

\* the set of outcomes: the sort of an unsorted table is not stable
validate_and_convert_input(df, data_type) ==
    IF df.py # "DataFrame" THEN {Raised("ValidationError")}
    ELSE IF REQUIRED_COLUMNS(data_type) \ df.columns # {} THEN {Raised("ValidationError")}
    ELSE IF ~df.temporal THEN {Raised("ValidationError")}
    ELSE LET sorted == IF is_sorted(df.rows) THEN {df.rows} ELSE SortOutcomes(df.rows)
             bad(rows) == \E i \in 1..Len(rows) :
                             \/ RLt(rows[i].position, R(-1, 1))
                             \/ RGt(rows[i].position, One)
         IN  IF data_type = "position" /\ bad(df.rows) THEN {Raised("ValidationError")}
             ELSE {Returned([df EXCEPT !.rows = rows]) : rows \in sorted}

\* an alignment check that only asks the position times to be close times
validate_time_alignment_subset(close_df, position_df) ==
    IF ~(TimesOf(position_df.rows) \subseteq TimesOf(close_df.rows))
    THEN Raised("ValidationError")
    ELSE Returned(<<>>)

validate_time_alignment(close_df, position_df) ==
    IF TimesOf(close_df.rows) # TimesOf(position_df.rows) THEN Raised("ValidationError")
    ELSE Returned(<<>>)

\* value.py is the Python type of what calculate returned
validate_data_type(data) ==
    IF data.py \in {"float", "DataFrame"} THEN Returned(data) ELSE Raised("ValidationError")

----------------------------------------------------------------------------
(* core/backtester.py: the funding-curve builder *)

\* close_df.join(position_df.select(["time", "position"]), on="time", how="inner")
RECURSIVE JoinOne(_, _)
JoinOne(left, right) ==
    IF right = <<>> THEN <<>>
    ELSE (IF Head(right).time = left.time
          THEN <<[time |-> left.time, close |-> left.close, position |-> Head(right).position]>>
          ELSE <<>>) \o JoinOne(left, Tail(right))

RECURSIVE Join(_, _)
Join(left, right) ==
    IF left = <<>> THEN <<>> ELSE JoinOne(Head(left), right) \o Join(Tail(left), right)

\* merged_df["close"].pct_change().fill_null(0)
pct_change(rows) ==
    [t \in 1..Len(rows) |->
        IF t = 1 THEN Zero ELSE RSub(RDiv(rows[t].close, rows[t - 1].close), One)]

\* the position column taken without the shift
shift_none(rows) == [t \in 1..Len(rows) |-> rows[t].position]

\* merged_df["position"].shift(1).fill_null(0)
shift(rows) == [t \in 1..Len(rows) |-> IF t = 1 THEN Zero ELSE rows[t - 1].position]

\* merged_df["position"].diff().abs().fill_null(0)
diff_abs(rows) ==
    [t \in 1..Len(rows) |->
        IF t = 1 THEN Zero ELSE RAbs(RSub(rows[t].position, rows[t - 1].position))]

RECURSIVE cum_prod(_)
cum_prod(xs) ==
    IF xs = <<>> THEN <<>>
    ELSE LET front == cum_prod(Front(xs))
         IN  IF front = <<>> THEN <<Last(xs)>> ELSE Append(front, RMul(Last(front), Last(xs)))

net_returns(merged, commission) ==
    LET returns == pct_change(merged)
        position_returns == [t \in 1..Len(merged) |-> RMul(returns[t], shift(merged)[t])]
        position_changes == diff_abs(merged)
        transaction_costs == [t \in 1..Len(merged) |-> RMul(position_changes[t], commission)]
    IN  [t \in 1..Len(merged) |-> RSub(position_returns[t], transaction_costs[t])]

\* a curve accumulated from the net returns themselves, not from 1 + net return
calculate_funding_curve_unbased(merged, commission) ==
    LET net == net_returns(merged, commission)
        funding_curve == cum_prod(net)
    IN  [t \in 1..Len(merged) |->
            [time |-> merged[t].time, funding_curve |-> funding_curve[t], returns |-> net[t]]]

calculate_funding_curve(merged, commission) ==
    LET net == net_returns(merged, commission)
        funding_curve == cum_prod([t \in 1..Len(merged) |-> RAdd(One, net[t])])
    IN  [t \in 1..Len(merged) |->
            [time |-> merged[t].time, funding_curve |-> funding_curve[t], returns |-> net[t]]]

\* merged_df.join(self._calculate_funding_curve(merged_df), on="time"); the rows
\* of the left table keep their order
RECURSIVE JoinCurveOne(_, _)
JoinCurveOne(left, right) ==
    IF right = <<>> THEN <<>>
    ELSE (IF Head(right).time = left.time
          THEN <<[time |-> left.time, close |-> left.close, position |-> left.position,
                  funding_curve |-> Head(right).funding_curve, returns |-> Head(right).returns]>>
          ELSE <<>>) \o JoinCurveOne(left, Tail(right))

RECURSIVE JoinCurve(_, _)
JoinCurve(left, right) ==
    IF left = <<>> THEN <<>> ELSE JoinCurveOne(Head(left), right) \o JoinCurve(Tail(left), right)

----------------------------------------------------------------------------
(* The evaluation context and the indicators' calculate *)

Max(a, b) == IF RLt(a, b) THEN b ELSE a

\* times[-1] of an empty column raises IndexError; the mean of the differences of
\* a one-row column is None, whose total_seconds() raises AttributeError
prepare_cache(merged_df, annual_trading_days) ==
    IF Len(merged_df) = 0 THEN Raised("IndexError")
    ELSE IF Len(merged_df) = 1 THEN Raised("AttributeError")
    ELSE LET span == R(Last(merged_df).time - merged_df[1].time, 1)
             total_days == Max(span, One)
             avg_interval == RDiv(span, R(Len(merged_df) - 1, 1))
             periods_per_day == IF RGt(avg_interval, Zero) THEN RDiv(One, avg_interval) ELSE One
         IN  Returned([merged_df |-> merged_df,
                       annual_trading_days |-> annual_trading_days,
                       total_days |-> total_days,
                       periods_per_day |-> periods_per_day,
                       values |-> <<>>])

InCache(cache, key) == key \in DOMAIN cache.values

Put(cache, key, value) ==
    [cache EXCEPT !.values = [k \in (DOMAIN cache.values) \cup {key} |->
                                 IF k = key THEN value ELSE cache.values[k]]]

\* what calculate hands back: the error it raised or its value, and the context
Calculated(value, cache) == [error |-> "none", value |-> value, cache |-> cache]
Failed(e, cache) == [error |-> e, value |-> <<>>, cache |-> cache]

\* a float whose value is not a rational: the name of the formula that yields
\* it and the rationals the formula is applied to.  Such a value is finite and
\* not NaN; NaN, the infinities and 0 are always held exactly.
Formula(f, args) ==
    [py |-> "float", v |-> Zero, formula |-> f, args |-> args, columns |-> {}]

\* a float whose value is exact in rational arithmetic
Exact(x) == [py |-> "float", v |-> x, formula |-> "exact", args |-> <<>>, columns |-> {}]

IsExact(value) == value.formula = "exact"

\* the rationals a float is made of
SymArgs(value) == IF IsExact(value) THEN <<value.v>> ELSE value.args

\* a / b on floats; b is never an exact 0 here
Div(a, b) ==
    IF IsExact(a) /\ IsExact(b) THEN Exact(RDiv(a.v, b.v))
    ELSE IF (IsExact(a) /\ IsNaN(a.v)) \/ (IsExact(b) /\ IsNaN(b.v)) THEN Exact(NaN)
    ELSE IF IsExact(b) /\ IsInf(b.v) THEN Exact(Zero)
    ELSE IF IsExact(a) /\ a.v = Zero THEN Exact(Zero)
    ELSE Formula("div(" \o a.formula \o "," \o b.formula \o ")", SymArgs(a) \o SymArgs(b))

\* a column of the merged table
Column(df, name) == [t \in 1..Len(df) |-> df[t][name]]

RECURSIVE series_sum(_)
series_sum(xs) == IF xs = <<>> THEN Zero ELSE RAdd(Head(xs), series_sum(Tail(xs)))

series_mean(xs) == RDiv(series_sum(xs), R(Len(xs), 1))

\* Series.max(): the largest value, NaN ignored unless every value is NaN
RECURSIVE series_max(_)
series_max(xs) ==
    IF xs = <<>> THEN NaN
    ELSE IF Len(xs) = 1 THEN xs[1]
    ELSE LET m == series_max(Front(xs))
             x == Last(xs)
         IN  IF IsNaN(m) THEN x ELSE IF IsNaN(x) THEN m ELSE IF RLt(m, x) THEN x ELSE m

\* Series.cum_max()
cum_max(xs) == [t \in 1..Len(xs) |-> series_max(SubSeq(xs, 1, t))]

\* (peak - curve) / peak, row by row
drawdown(curve) ==
    LET peak == cum_max(curve)
    IN  [t \in 1..Len(curve) |-> RDiv(RSub(peak[t], curve[t]), peak[t])]

\* the square of Series.std(), the sample standard deviation
variance(xs) ==
    LET mean == series_mean(xs)
        squares == [t \in 1..Len(xs) |-> RMul(RSub(xs[t], mean), RSub(xs[t], mean))]
    IN  RDiv(series_sum(squares), R(Len(xs) - 1, 1))

\* series.filter(series > 0) and series.filter(series < 0)
RECURSIVE Positive(_)
Positive(xs) ==
    IF xs = <<>> THEN <<>>
    ELSE (IF RGt(Head(xs), Zero) THEN <<Head(xs)>> ELSE <<>>) \o Positive(Tail(xs))

RECURSIVE Negative(_)
Negative(xs) ==
    IF xs = <<>> THEN <<>>
    ELSE (IF RLt(Head(xs), Zero) THEN <<Head(xs)>> ELSE <<>>) \o Negative(Tail(xs))

\* curve.tail(1)[0] of an empty column raises IndexError
TotalReturn_calculate(cache) ==
    IF InCache(cache, "total_return") THEN Calculated(cache.values["total_return"], cache)
    ELSE IF Len(cache.merged_df) = 0 THEN Failed("IndexError", cache)
    ELSE LET curve == cache.merged_df
             value == Exact(RSub(RDiv(Last(curve).funding_curve, curve[1].funding_curve), One))
         IN  Calculated(value, Put(cache, "total_return", value))

\* (1 + total_return) ** (365 / actual_days) - 1.  The power of a negative base
\* with an exponent that is not an integer is a complex number, and float() of
\* it raises TypeError.
AnnualReturn_calculate(cache) ==
    IF InCache(cache, "annual_return") THEN Calculated(cache.values["annual_return"], cache)
    ELSE IF ~InCache(cache, "total_return") THEN Failed("KeyError", cache)
    ELSE IF Len(cache.merged_df) = 0 THEN Failed("ZeroDivisionError", cache)
    ELSE LET total_return == cache.values["total_return"].v
             actual_days == RDiv(R(Len(cache.merged_df), 1), cache.periods_per_day)
             base == RAdd(One, total_return)
             exponent == RDiv(R(365, 1), actual_days)
             odd == exponent[2] = 1 /\ exponent[1] % 2 = 1
             value == IF IsNaN(base) THEN Exact(NaN)
                      ELSE IF base = Inf THEN Exact(Inf)
                      ELSE IF base = RNeg(Inf) THEN Exact(IF odd THEN RNeg(Inf) ELSE Inf)
                      ELSE IF base = Zero THEN Exact(R(-1, 1))
                      ELSE IF base = One THEN Exact(Zero)
                      ELSE Formula("pow_minus_1", <<base, exponent>>)
         IN  IF ~IsInf(base) /\ RLt(base, Zero) /\ exponent[2] # 1
             THEN Failed("TypeError", cache)
             ELSE Calculated(value, Put(cache, "annual_return", value))

\* returns.std() * np.sqrt(annual_periods), computed and stored on every call.
\* The std of fewer than two values is None, and None * float raises TypeError.
Volatility_calculate(cache) ==
    LET returns == Column(cache.merged_df, "returns")
        annual_periods == RMul(cache.periods_per_day, cache.annual_trading_days)
        var == variance(returns)
        volatility == IF IsNaN(var) \/ IsInf(var) \/ var = Zero THEN Exact(var)
                      ELSE Formula("sqrt_mul", <<var, annual_periods>>)
    IN  IF Len(returns) < 2 THEN Failed("TypeError", cache)
        ELSE Calculated(volatility, Put(cache, "volatility", volatility))

\* the ratio, from a context that holds the volatility: cache["annual_return"]
\* is read only when the volatility is not 0
SharpeRatio_ratio(cache) ==
    LET annual_vol == cache.values["volatility"]
    IN  IF annual_vol = Exact(Zero)
        THEN Calculated(Exact(Zero), Put(cache, "sharpe_ratio", Exact(Zero)))
        ELSE IF ~InCache(cache, "annual_return") THEN Failed("KeyError", cache)
        ELSE Calculated(Div(cache.values["annual_return"], annual_vol),
                        Put(cache, "sharpe_ratio", Div(cache.values["annual_return"], annual_vol)))

\* the ratio after the volatility was computed for it, or the error of that
SharpeRatio_with(vol) == IF vol.error # "none" THEN vol ELSE SharpeRatio_ratio(vol.cache)

\* the volatility is computed first when the context does not hold it
SharpeRatio_calculate(cache) ==
    IF InCache(cache, "sharpe_ratio") THEN Calculated(cache.values["sharpe_ratio"], cache)
    ELSE IF InCache(cache, "volatility") THEN SharpeRatio_ratio(cache)
    ELSE SharpeRatio_with(Volatility_calculate(cache))

\* float(None) raises TypeError: the max of an empty column is None
MaxDrawdown_calculate(cache) ==
    IF InCache(cache, "max_drawdown") THEN Calculated(cache.values["max_drawdown"], cache)
    ELSE IF Len(cache.merged_df) = 0 THEN Failed("TypeError", cache)
    ELSE LET max_dd == Exact(series_max(drawdown(Column(cache.merged_df, "funding_curve"))))
         IN  Calculated(max_dd, Put(cache, "max_drawdown", max_dd))

\* the days from the last row at or before the row of the largest drawdown where
\* the curve is at its peak, to that row; computed and stored on every call.
\* arg_max of an empty column is None, and indexing with it raises.  Where the
\* curve or the drawdown holds a NaN the rows found depend on the library's
\* ordering of NaN, and the value is a formula of the table.
\* a duration measured from the first row at which the curve is at its peak
MaxDrawdownDuration_calculate_first_peak(cache) ==
    LET df == cache.merged_df
        curve == Column(df, "funding_curve")
        peak == cum_max(curve)
        dd == [t \in 1..Len(curve) |-> RDiv(RSub(peak[t], curve[t]), peak[t])]
        largest == series_max(dd)
        max_drawdown_idx == CHOOSE i \in 1..Len(df) :
                               /\ dd[i] = largest
                               /\ \A j \in 1..(i - 1) : dd[j] # largest
        at_peak == {i \in 1..Len(df) : df[i].time <= df[max_drawdown_idx].time
                                       /\ curve[i] = peak[i]}
        peak_before_max_dd == CHOOSE i \in at_peak : \A j \in at_peak : i <= j
        duration_days ==
            IF \E i \in 1..Len(df) : IsNaN(curve[i]) \/ IsNaN(dd[i])
            THEN Formula("max_drawdown_duration_nan", <<>>)
            ELSE Exact(R(df[max_drawdown_idx].time - df[peak_before_max_dd].time, 1))
    IN  IF Len(df) = 0 THEN Failed("TypeError", cache)
        ELSE Calculated(duration_days, Put(cache, "max_drawdown_duration", duration_days))

MaxDrawdownDuration_calculate(cache) ==
    LET df == cache.merged_df
        curve == Column(df, "funding_curve")
        peak == cum_max(curve)
        dd == [t \in 1..Len(curve) |-> RDiv(RSub(peak[t], curve[t]), peak[t])]
        largest == series_max(dd)
        max_drawdown_idx == CHOOSE i \in 1..Len(df) :
                               /\ dd[i] = largest
                               /\ \A j \in 1..(i - 1) : dd[j] # largest
        at_peak == {i \in 1..Len(df) : df[i].time <= df[max_drawdown_idx].time
                                       /\ curve[i] = peak[i]}
        peak_before_max_dd == CHOOSE i \in at_peak : \A j \in at_peak : j <= i
        duration_days ==
            IF \E i \in 1..Len(df) : IsNaN(curve[i]) \/ IsNaN(dd[i])
            THEN Formula("max_drawdown_duration_nan", <<>>)
            ELSE Exact(R(df[max_drawdown_idx].time - df[peak_before_max_dd].time, 1))
    IN  IF Len(df) = 0 THEN Failed("TypeError", cache)
        ELSE Calculated(duration_days, Put(cache, "max_drawdown_duration", duration_days))

\* count(returns > 0) / count(returns); an empty column returns 0.0 at once, and
\* nothing is stored for it
WinRate_calculate(cache) ==
    LET returns == Column(cache.merged_df, "returns")
        total_trades == Len(returns)
        win_rate == Exact(R(Len(Positive(returns)), total_trades))
    IN  IF total_trades = 0 THEN Calculated(Exact(Zero), cache)
        ELSE Calculated(win_rate, Put(cache, "win_rate", win_rate))

AvgDrawdown_calculate(cache) ==
    IF InCache(cache, "avg_drawdown") THEN Calculated(cache.values["avg_drawdown"], cache)
    ELSE LET non_zero_drawdown == Positive(drawdown(Column(cache.merged_df, "funding_curve")))
             avg_dd == Exact(IF Len(non_zero_drawdown) > 0 THEN series_mean(non_zero_drawdown)
                             ELSE Zero)
         IN  Calculated(avg_dd, Put(cache, "avg_drawdown", avg_dd))

\* avg_loss is float("inf") when there is no losing period, and then it is not 0
ProfitLossRatio_calculate(cache) ==
    IF InCache(cache, "profit_loss_ratio")
    THEN Calculated(cache.values["profit_loss_ratio"], cache)
    ELSE LET returns == Column(cache.merged_df, "returns")
             profit_trades == Positive(returns)
             loss_trades == Negative(returns)
             avg_profit == IF Len(profit_trades) > 0 THEN series_mean(profit_trades) ELSE Zero
             avg_loss == IF Len(loss_trades) > 0 THEN RAbs(series_mean(loss_trades)) ELSE Inf
             ratio == IF avg_loss = Zero
                      THEN (IF RGt(avg_profit, Zero) THEN Inf ELSE Zero)
                      ELSE RDiv(avg_profit, avg_loss)
         IN  Calculated(Exact(ratio), Put(cache, "profit_loss_ratio", Exact(ratio)))

\* a custom indicator, after examples/custom_indicator.py: it returns the cached
\* value when there is one, reads the values of its requires from the context
\* (KeyError when one is absent) and stores its own; cls.returns is the type of
\* the value its calculate produces
Custom_calculate(cls, cache) ==
    IF InCache(cache, cls.name) THEN Calculated(cache.values[cls.name], cache)
    ELSE IF \E r \in cls.requires : ~InCache(cache, r) THEN Failed("KeyError", cache)
    ELSE LET value == [py |-> cls.returns, v |-> Zero, formula |-> cls.name, args |-> <<>>,
                       columns |-> cls.columns]
         IN  Calculated(value, Put(cache, cls.name, value))

calculate(cls, cache) ==
    CASE cls.name = "total_return" -> TotalReturn_calculate(cache)
      [] cls.name = "annual_return" -> AnnualReturn_calculate(cache)
      [] cls.name = "volatility" -> Volatility_calculate(cache)
      [] cls.name = "sharpe_ratio" -> SharpeRatio_calculate(cache)
      [] cls.name = "max_drawdown" -> MaxDrawdown_calculate(cache)
      [] cls.name = "max_drawdown_duration" -> MaxDrawdownDuration_calculate(cache)
      [] cls.name = "win_rate" -> WinRate_calculate(cache)
      [] cls.name = "avg_drawdown" -> AvgDrawdown_calculate(cache)
      [] cls.name = "profit_loss_ratio" -> ProfitLossRatio_calculate(cache)
      [] OTHER -> Custom_calculate(cls, cache)

\* format(value): the format specification applied to the value
format(cls, value) ==
    LET spec == CASE cls.name \in {"sharpe_ratio", "profit_loss_ratio"} -> ".2f"
                  [] cls.name = "max_drawdown_duration" -> ".0f days"
                  [] OTHER -> ".2%"
    IN  [spec |-> spec, of |-> value]

----------------------------------------------------------------------------
(* PositionBacktester *)

NoEngine ==
    [constructed |-> FALSE, close_df |-> NotAFrame, commission |-> PyInt(0),
     annual_trading_days |-> PyInt(0), indicators |-> All, sorted_indicators |-> <<>>]

\* __init__: the engine created, or the error raised.  The ValueError that
\* get_indicator raises inside validate_indicators passes through as it is.
init(close_df, commission, annual_trading_days, indicators, registry, sorted, order) ==
    LET c == validate_commission(commission)
        d == validate_annual_trading_days(annual_trading_days)
        i == validate_indicators(indicators, registry, sorted, order)
    IN  IF c.error # "none" THEN {Raised("ValueError")}
        ELSE IF d.error # "none" THEN {Raised("ValueError")}
        ELSE IF i.error # "none" THEN {Raised("ValueError")}
        ELSE {IF f.error # "none" THEN Raised("ValueError")
              ELSE Returned([constructed |-> TRUE,
                             close_df |-> f.value,
                             commission |-> commission,
                             annual_trading_days |-> annual_trading_days,
                             indicators |-> indicators,
                             sorted_indicators |-> i.value])
                : f \in validate_and_convert_input(close_df, "close")}

\* the state of the loop of _calculate_indicators
LoopStart(cache) ==
    [error |-> "none", cache |-> cache, dataframes |-> <<>>, indicators |-> <<>>,
     computed |-> <<>>]

Store(f, key, value) == [k \in (DOMAIN f) \cup {key} |-> IF k = key THEN value ELSE f[k]]

\* one turn of the loop, from what calculate handed back: the value is checked,
\* and kept when the indicator is one of those asked for
loop_body(st, indicator, cls, c, self) ==
    LET value == validate_data_type(c.value)
        st2 == [st EXCEPT !.computed = Append(@, indicator), !.cache = c.cache]
    IN  IF c.error # "none" THEN [st2 EXCEPT !.error = c.error]
        ELSE IF value.error # "none" THEN [st2 EXCEPT !.error = value.error]
        ELSE IF self.indicators # All /\ indicator \notin Range(self.indicators.v) THEN st2
        ELSE IF value.value.py = "DataFrame"
             THEN [st2 EXCEPT !.dataframes = Store(@, indicator, value.value)]
        ELSE [st2 EXCEPT !.indicators = Store(@, indicator,
                            [value |-> value.value,
                             formatted_value |-> format(cls, value.value)])]

RECURSIVE calculate_indicators(_, _, _, _)
calculate_indicators(todo, st, self, registry) ==
    IF todo = <<>> \/ st.error # "none" THEN st
    ELSE IF Head(todo) \notin Keys(registry) THEN [st EXCEPT !.error = "ValueError"]
    ELSE calculate_indicators(
             Tail(todo),
             loop_body(st, Head(todo), Lookup(registry, Head(todo)),
                       calculate(Lookup(registry, Head(todo)), st.cache), self),
             self, registry)

\* what a call of run does: the error raised ("none" when it returns), the steps
\* it went through, the indicators whose calculate it invoked, and its result
Outcome(error, stages, computed, result) ==
    [error |-> error, stages |-> stages, computed |-> computed, result |-> result]

NoResult == [_dataframes |-> <<>>, _indicator_values |-> <<>>, _formatted_indicator_values |-> <<>>]

\* the result of run, from what the loop over the indicators left
run_result(merged_df, results) ==
    LET stages6 == <<"validate_input", "validate_time_alignment", "merge", "funding_curve",
                     "prepare_cache", "calculate_indicators">>
        \* {k: v[k] for k, v in results["dataframes"].items()}: the column named k
        missing == {k \in DOMAIN results.dataframes : k \notin results.dataframes[k].columns}
        dataframes == [k \in DOMAIN results.dataframes |->
                          [results.dataframes[k] EXCEPT !.py = "Series", !.columns = {k}]]
    IN  IF results.error # "none"
        THEN Outcome(results.error, stages6, results.computed, NoResult)
        ELSE IF missing # {}
             THEN Outcome("ColumnNotFoundError", stages6, results.computed, NoResult)
        ELSE Outcome("none", Append(stages6, "result"), results.computed,
                     [_dataframes |-> Store(dataframes, "merged_df", merged_df),
                      _indicator_values |->
                          [k \in DOMAIN results.indicators |-> results.indicators[k].value],
                      _formatted_indicator_values |->
                          [k \in DOMAIN results.indicators |->
                              results.indicators[k].formatted_value]])

\* the steps of run on the table with its funding curve
run_curve(self, merged_df, cache, registry) ==
    IF cache.error # "none"
    THEN Outcome(cache.error,
                 <<"validate_input", "validate_time_alignment", "merge", "funding_curve",
                   "prepare_cache">>, <<>>, NoResult)
    ELSE run_result(merged_df,
                    calculate_indicators(self.sorted_indicators, LoopStart(cache.value),
                                         self, registry))

\* the context of the table with its funding curve
run_context(self, merged_df, registry) ==
    run_curve(self, merged_df, prepare_cache(merged_df, self.annual_trading_days.v), registry)

\* the steps of run after the merge, for one merged table
run_merged(self, merged, registry) ==
    run_context(self, JoinCurve(merged, calculate_funding_curve(merged, self.commission.v)),
                registry)

\* run(position_df): the set of its possible outcomes
run(self, position_df, registry) ==
    UNION {
        IF p.error # "none"
        THEN {Outcome("ValueError", <<"validate_input">>, <<>>, NoResult)}
        ELSE IF validate_time_alignment(self.close_df, p.value).error # "none"
        THEN {Outcome("ValueError", <<"validate_input", "validate_time_alignment">>,
                      <<>>, NoResult)}
        ELSE {run_merged(self, merged, registry) :
                merged \in SortOutcomes(Join(self.close_df.rows, p.value.rows))}
        : p \in validate_and_convert_input(position_df, "position")}

\* a run that keeps the order it evaluated in self.sorted_indicators
run_self_keeps_order(self, o) == [self EXCEPT !.sorted_indicators = o.computed]

\* the fields of self when run is over: run binds only local names
run_self(self, o) == self

\* IndicatorRegistry.register
register(indicators, sorted, indicator, update_dependency, order) ==
    LET new == DictSet(indicators, indicator)
    IN  [_indicators |-> new,
         _sorted_indicators |->
             IF update_dependency THEN sort_indicators_by_dependency(new, order) ELSE sorted]

\* IndicatorRegistry.__init__
registry_init(order) ==
    LET new == register_builtin_indicators(BuiltinClasses, <<>>)
    IN  [_indicators |-> new, _sorted_indicators |-> sort_indicators_by_dependency(new, order)]

----------------------------------------------------------------------------
(* The actions: the public calls *)

Engines == {"e1"}

NoCall == [op |-> "none"]
NoOutcome == Outcome("none", <<>>, <<>>, NoResult)

\* indicator_registry.register(indicator)
Register(indicator) ==
    LET r == register(_indicators, _sorted_indicators, indicator, TRUE, hashOrder)
    IN  /\ _indicators' = r._indicators
        /\ _sorted_indicators' = r._sorted_indicators
        /\ call' = [op |-> "register", indicator |-> indicator]
        /\ outcome' = NoOutcome
        /\ UNCHANGED <<hashOrder, engines>>

\* backtester.add_indicator(indicator)
AddIndicator(e, indicator) ==
    /\ engines[e].constructed
    /\ LET r == register(_indicators, _sorted_indicators, indicator, TRUE, hashOrder)
       IN  /\ _indicators' = r._indicators
           /\ _sorted_indicators' = r._sorted_indicators
    /\ call' = [op |-> "add_indicator", engine |-> e, indicator |-> indicator]
    /\ outcome' = NoOutcome
    /\ UNCHANGED <<hashOrder, engines>>

\* e = PositionBacktester(close_df, commission, annual_trading_days, indicators)
Construct(e, close_df, commission, annual_trading_days, indicators) ==
    /\ \E r \in init(close_df, commission, annual_trading_days, indicators,
                     _indicators, _sorted_indicators, hashOrder) :
          /\ engines' = IF r.error = "none" THEN [engines EXCEPT ![e] = r.value] ELSE engines
          /\ outcome' = Outcome(r.error, <<>>, <<>>, NoResult)
    /\ call' = [op |-> "init", engine |-> e, close_df |-> close_df, commission |-> commission,
                annual_trading_days |-> annual_trading_days, indicators |-> indicators]
    /\ UNCHANGED <<_indicators, _sorted_indicators, hashOrder>>

\* a run whose context is the one the previous run left behind: the values that
\* run memoized are read instead of being computed
Run_shared_context(e, position_df) ==
    /\ engines[e].constructed
    /\ \E o \in run(engines[e], position_df, _indicators) :
          /\ outcome' =
                IF o.error = "none" /\ call.op = "run" /\ outcome.error = "none"
                THEN [o EXCEPT !.result._indicator_values =
                        [k \in DOMAIN @ |->
                            IF k \in DOMAIN outcome.result._indicator_values
                            THEN outcome.result._indicator_values[k] ELSE @[k]]]
                ELSE o
          /\ engines' = [engines EXCEPT ![e] = run_self(@, o)]
    /\ call' = [op |-> "run", engine |-> e, position_df |-> position_df]
    /\ UNCHANGED <<_indicators, _sorted_indicators, hashOrder>>

\* e.run(position_df)
Run(e, position_df) ==
    /\ engines[e].constructed
    /\ \E o \in run(engines[e], position_df, _indicators) :
          /\ outcome' = o
          /\ engines' = [engines EXCEPT ![e] = run_self(@, o)]
    /\ call' = [op |-> "run", engine |-> e, position_df |-> position_df]
    /\ UNCHANGED <<_indicators, _sorted_indicators, hashOrder>>

\* validate_indicators(indicators), as the constructor calls it
ValidateIndicators(indicators) ==
    /\ LET r == validate_indicators(indicators, _indicators, _sorted_indicators, hashOrder)
       IN  outcome' = Outcome(r.error, <<>>, <<>>, r.value)
    /\ call' = [op |-> "validate_indicators", indicators |-> indicators]
    /\ UNCHANGED <<_indicators, _sorted_indicators, hashOrder, engines>>

\* indicator_registry.get_indicator(name).calculate(cache), as the loop of
\* _calculate_indicators calls it on the context of one run: the next indicator
\* of the engine's order, or once more an indicator whose value the context holds
Calculate(name) ==
    /\ call.op \in {"context", "calculate"}
    /\ outcome.error = "none" \/ InCache(call.cache, name)
    /\ \/ InCache(call.cache, name)
       \/ call.todo # <<>> /\ name = Head(call.todo)
    /\ LET c == calculate(Lookup(_indicators, name), call.cache)
       IN  /\ call' = [op |-> "calculate", name |-> name, before |-> call.cache,
                       cache |-> c.cache,
                       todo |-> IF call.todo # <<>> /\ name = Head(call.todo)
                                THEN Tail(call.todo) ELSE call.todo]
           /\ outcome' = Outcome(c.error, <<>>, <<>>, c.value)
    /\ UNCHANGED <<_indicators, _sorted_indicators, hashOrder, engines>>

\* self._calculate_funding_curve(merged_df), on the table and commission drawn
CalculateFundingCurve ==
    /\ call.op = "input"
    /\ call.fn = "_calculate_funding_curve"
    /\ outcome' = Outcome("none", <<"funding_curve">>, <<>>,
                          calculate_funding_curve(call.merged_df, call.commission.v))
    /\ call' = [call EXCEPT !.op = "_calculate_funding_curve"]
    /\ UNCHANGED <<_indicators, _sorted_indicators, hashOrder, engines>>

\* validate_and_convert_input(df, data_type), on the table drawn
ValidateInput ==
    /\ call.op = "input"
    /\ call.fn = "validate_and_convert_input"
    /\ \E r \in validate_and_convert_input(call.df, call.data_type) :
          outcome' = Outcome(r.error, <<>>, <<>>, r.value)
    /\ call' = [call EXCEPT !.op = "validate_and_convert_input"]
    /\ UNCHANGED <<_indicators, _sorted_indicators, hashOrder, engines>>

----------------------------------------------------------------------------
(* Inputs of the engine specification *)

Row(t, c, p) == [time |-> t, close |-> c, position |-> p]

CloseRow(t, c) == Row(t, R(c, 1), Zero)
PositionRow(t, n, d) == Row(t, Zero, R(n, d))

CloseFrame(rows) == DataFrame({"time", "close"}, TRUE, rows)
PositionFrame(rows) == DataFrame({"time", "position"}, TRUE, rows)

ExampleClose == CloseFrame(<<CloseRow(1, 100), CloseRow(2, 110), CloseRow(3, 99)>>)

EngineCloseFrames ==
    {ExampleClose,
     CloseFrame(<<CloseRow(3, 99), CloseRow(1, 100), CloseRow(2, 110)>>),
     DataFrame({"time"}, TRUE, <<CloseRow(1, 0), CloseRow(2, 0)>>)}

EnginePositionFrames ==
    {PositionFrame(<<PositionRow(1, 1, 1), PositionRow(2, 1, 1), PositionRow(3, 1, 1)>>),
     PositionFrame(<<PositionRow(2, 1, 2), PositionRow(1, 0, 1), PositionRow(3, -1, 1)>>),
     PositionFrame(<<PositionRow(1, 1, 1), PositionRow(2, 1, 1)>>),
     PositionFrame(<<PositionRow(1, 1, 1), PositionRow(2, 1, 1), PositionRow(3, 1, 1),
                     PositionRow(4, 1, 1)>>),
     PositionFrame(<<PositionRow(1, 2, 1), PositionRow(2, 2, 1), PositionRow(3, 2, 1)>>),
     DataFrame({"time", "position"}, FALSE,
               <<PositionRow(1, 1, 1), PositionRow(2, 1, 1), PositionRow(3, 1, 1)>>)}

EngineCommissions == {PyFloat(R(1, 10))}

EngineSelections ==
    {All, NameList(<<"sharpe_ratio">>), NameList(<<"c1">>), NameList(<<"c2", "win_rate">>),
     NameList(<<Ghost>>)}

\* the custom indicator classes callers register with an engine around
EngineClasses ==
    {IndicatorClass("c1", {"annual_return"}, "float", {}),
     IndicatorClass("c1", {"c2"}, "float", {}),
     IndicatorClass("c1", {Ghost}, "float", {}),
     IndicatorClass("c2", {}, "int", {}),
     IndicatorClass("c2", {"c1"}, "DataFrame", {"time", "c2"}),
     IndicatorClass("c2", {}, "DataFrame", {"time", "value"})}

----------------------------------------------------------------------------
(* The engine specification *)

Init ==
    /\ hashOrder \in Perms(CustomNames)
    /\ LET r == registry_init(hashOrder)
       IN  /\ _indicators = r._indicators
           /\ _sorted_indicators = r._sorted_indicators
    /\ engines = [e \in Engines |-> NoEngine]
    /\ call = NoCall
    /\ outcome = NoOutcome

Next ==
    \/ \E indicator \in EngineClasses : Register(indicator)
    \/ \E e \in Engines, indicator \in EngineClasses : AddIndicator(e, indicator)
    \/ \E e \in Engines, close_df \in EngineCloseFrames, commission \in EngineCommissions,
          indicators \in EngineSelections :
            Construct(e, close_df, commission, PyInt(252), indicators)
    \/ \E e \in Engines, position_df \in EnginePositionFrames : Run(e, position_df)

Spec == Init /\ [][Next]_vars

----------------------------------------------------------------------------
(* Claims about the engine and the registry together (Spec) *)

RanOn(e) == call.op = "run" /\ call.engine = e

\* the indicator names a result exposes
Emitted(result) ==
    (DOMAIN result._indicator_values) \cup ((DOMAIN result._dataframes) \ {"merged_df"})

RECURSIVE Closure(_, _)
\* the names in S and everything they transitively require
Closure(S, indicators) ==
    LET more == S \cup UNION {Lookup(indicators, n).requires : n \in S \cap Keys(indicators)}
    IN  IF more = S THEN S ELSE Closure(more, indicators)

\* C2: a run's result exposes exactly the caller's selection - every registered
\* indicator for "all", the requested names for an explicit list - and every
\* transitive dependency of the selection has been computed during the run.
C2_ResultExposesSelection ==
    \A e \in Engines :
        (RanOn(e) /\ outcome.error = "none") =>
            LET self == engines[e]
                selected == IF self.indicators = All THEN Keys(_indicators)
                            ELSE Range(self.indicators.v)
            IN  /\ Emitted(outcome.result) = selected
                /\ DOMAIN outcome.result._formatted_indicator_values
                     = DOMAIN outcome.result._indicator_values
                /\ Closure(selected, _indicators) \cap Keys(_indicators)
                     \subseteq Range(outcome.computed)

\* C23: during a run, when the calculate of an indicator is invoked, every
\* registered indicator it requires has been computed earlier in the same run
C23_RequiresComputedFirst ==
    \A e \in Engines :
        RanOn(e) =>
            \A i \in 1..Len(outcome.computed) :
                outcome.computed[i] \in Keys(_indicators) =>
                    \A r \in Lookup(_indicators, outcome.computed[i]).requires
                              \cap Keys(_indicators) :
                        \E j \in 1..(i - 1) : outcome.computed[j] = r

\* the table calculate returns for a custom indicator that returns a table
ReturnedTable(cls) ==
    [py |-> "DataFrame", v |-> Zero, formula |-> cls.name, args |-> <<>>, columns |-> cls.columns]

\* the indicators the run evaluated for the result whose calculate returns a table
TableValued(self, computed) ==
    {n \in Range(computed) \cap Keys(_indicators) :
        /\ Lookup(_indicators, n).returns = "DataFrame"
        /\ self.indicators = All \/ n \in Range(self.indicators.v)}

\* C20: for every emitted indicator whose calculate returns a table, the result's
\* dataframes hold under its name exactly that table, next to the merged table,
\* and it has no entry among the values or the formatted values
C20_TablesSurfacedAsIs ==
    \A e \in Engines :
        \* the loop over the indicators ended without an error
        (RanOn(e) /\ outcome.error \in {"none", "ColumnNotFoundError"}
                  /\ TableValued(engines[e], outcome.computed) # {})
        => /\ outcome.error = "none"
           /\ "merged_df" \in DOMAIN outcome.result._dataframes
           /\ \A n \in TableValued(engines[e], outcome.computed) :
                 /\ n \in DOMAIN outcome.result._dataframes
                 /\ outcome.result._dataframes[n] = ReturnedTable(Lookup(_indicators, n))
                 /\ n \notin DOMAIN outcome.result._indicator_values
                 /\ n \notin DOMAIN outcome.result._formatted_indicator_values

\* C4: the run that follows add_indicator(d) on an engine constructed with
\* indicators="all" evaluates d and emits it in its result.
C4_AddIndicatorTakesEffect ==
    [][\A e \in Engines :
          (/\ call.op = "add_indicator"
           /\ call'.op = "run" /\ call'.engine = e
           /\ engines[e].indicators = All
           /\ outcome'.error = "none")
          => /\ call.indicator.name \in Range(outcome'.computed)
             /\ call.indicator.name \in Emitted(outcome'.result)]_vars

\* C6: when the position table's timestamps are not the close table's, run
\* raises ValueError having done nothing after the alignment check: no merge,
\* no funding curve, no context, no indicator, no result.
C6_MisalignedRunStopsEarly ==
    \A e \in Engines :
        (/\ RanOn(e)
         /\ TimesOf(call.position_df.rows) # TimesOf(engines[e].close_df.rows))
        => /\ outcome.error = "ValueError"
           /\ Range(outcome.stages) \subseteq {"validate_input", "validate_time_alignment"}
           /\ outcome.computed = <<>>
           /\ outcome.result = NoResult

C6_Witness ==
    \E e \in Engines :
        /\ RanOn(e)
        /\ TimesOf(call.position_df.rows) # TimesOf(engines[e].close_df.rows)
        /\ outcome.stages = <<"validate_input", "validate_time_alignment">>
        /\ outcome.error = "ValueError"

\* C7: no constructor call and no run call ends with a raw ValidationError.
C7_NoRawValidationError ==
    call.op \in {"init", "run"} => outcome.error # "ValidationError"

\* C10: a run that fails with ValueError leaves the engine and the registry as
\* they were, and every later run returns what it would have returned before.
C10_FailedRunChangesNothing ==
    [][\A e \in Engines :
          (call'.op = "run" /\ call'.engine = e /\ outcome'.error = "ValueError")
          => /\ engines' = engines
             /\ _indicators' = _indicators
             /\ _sorted_indicators' = _sorted_indicators
             /\ \A p \in EnginePositionFrames :
                   run(engines'[e], p, _indicators') = run(engines[e], p, _indicators)]_vars

C10_Witness ==
    \E e \in Engines :
        /\ RanOn(e)
        /\ outcome.error = "ValueError"
        /\ engines[e].indicators # All
        /\ \E p \in EnginePositionFrames :
              \E o \in run(engines[e], p, _indicators) : o.error = "none"

----------------------------------------------------------------------------
(* The registry specification: register calls with any requires set, and   *)
(* validate_indicators on any selection                                     *)

DepNames == {"annual_return", "c1", "c2", Ghost}

RegistryClasses ==
    {IndicatorClass(n, req, "float", {}) :
        n \in CustomNames, req \in {S \in SUBSET DepNames : Cardinality(S) <= MaxRequires}}

SelectionNames == {"sharpe_ratio", "max_drawdown_duration", "c1", "c2", Ghost}

RegistrySelections ==
    {All, Str("sharpe_ratio")} \cup {NameList(l) : l \in SeqsUpTo(SelectionNames, MaxSelection)}

\* a session registers classes and then validates one selection:
\* validate_indicators reads the registry and changes nothing, so the
\* registry states reached are those of any interleaving
Registering == call.op \in {"none", "register"}

NextRegistry ==
    \/ \E indicator \in RegistryClasses : Registering /\ Register(indicator)
    \/ \E indicators \in RegistrySelections : Registering /\ ValidateIndicators(indicators)

SpecRegistry == Init /\ [][NextRegistry]_vars

Requires(indicators, n) == Lookup(indicators, n).requires \cap Keys(indicators)

\* no registered indicator transitively requires itself
Acyclic(indicators) ==
    \A n \in Keys(indicators) :
        n \notin Closure(Requires(indicators, n), indicators)

Position(s, x) == IndexOf(s, x)

\* C1: when the registered requires are acyclic, every registered indicator
\* comes after each registered indicator it requires in sorted_indicators.
C1_DependenciesFirst ==
    Acyclic(_indicators) =>
        \A n \in Keys(_indicators) :
            /\ n \in Range(_sorted_indicators)
            /\ \A a \in Requires(_indicators, n) :
                  /\ a \in Range(_sorted_indicators)
                  /\ Position(_sorted_indicators, a) < Position(_sorted_indicators, n)

\* a custom indicator registered before the two indicators it requires
C1_Witness ==
    /\ Acyclic(_indicators)
    /\ call.op = "register"
    /\ \E n \in Keys(_indicators) \cap CustomNames :
          /\ Cardinality(Requires(_indicators, n)) = 2
          /\ \E a \in Requires(_indicators, n) :
                Position(KeySeq(_indicators), n) < Position(KeySeq(_indicators), a)

IsSubsequence(s, t) == SelectSeqBy(t, Range(s)) = s

\* C3: for a list S of registered names validate_indicators returns a list
\* that contains S, contains the registered requires of each of its names,
\* contains nothing outside the closure of S, and keeps the order of
\* sorted_indicators; for a list with an unregistered name it raises
\* ValidationError.
C3_ValidateIndicatorsExpands ==
    (call.op = "validate_indicators" /\ call.indicators.py = "list") =>
        LET S == Range(call.indicators.v)
            result == outcome.result
        IN  IF S \subseteq Keys(_indicators)
            THEN /\ outcome.error = "none"
                 /\ S \subseteq Range(result)
                 /\ \A n \in Range(result) : Requires(_indicators, n) \subseteq Range(result)
                 /\ Range(result) \subseteq Closure(S, _indicators)
                 /\ IsSubsequence(result, _sorted_indicators)
            ELSE outcome.error = "ValidationError"

\* the built-in catalog of the specification: each name and the names it requires
Catalog ==
    [total_return |-> {}, annual_return |-> {"total_return"}, volatility |-> {},
     sharpe_ratio |-> {"annual_return", "volatility"}, max_drawdown |-> {},
     max_drawdown_duration |-> {"max_drawdown"},
     calmar_ratio |-> {"annual_return", "max_drawdown"}, sortino_ratio |-> {"annual_return"},
     win_rate |-> {}, avg_drawdown |-> {}, profit_loss_ratio |-> {}, monthly_returns |-> {}]

\* C18: right after the registry is initialized, available_indicators holds every
\* name of the catalog and each registered built-in declares the requires the
\* catalog lists for it
C18_BuiltinCatalog ==
    call.op = "none"
    => /\ DOMAIN Catalog \subseteq Range(available_indicators(_indicators))
       /\ \A n \in Keys(_indicators) \cap DOMAIN Catalog :
             Lookup(_indicators, n).requires = Catalog[n]

----------------------------------------------------------------------------
(* The funding-curve specification: the builder on every aligned table     *)

ClosePrices == {99, 100, 110}
Positions == {R(-1, 1), Zero, R(1, 2), One}
CurveCommissions == {PyFloat(Zero), PyFloat(R(1, 10)), PyInt(1), PyFloat(NaN)}

\* aligned tables: one row per timestamp, ascending
MergedTables ==
    UNION {{[t \in 1..n |-> Row(t, R(c[t], 1), p[t])] :
               c \in [1..n -> ClosePrices], p \in [1..n -> Positions]} : n \in 0..MaxRows}

InitRegistry ==
    /\ hashOrder \in Perms(CustomNames)
    /\ LET r == registry_init(hashOrder)
       IN  /\ _indicators = r._indicators
           /\ _sorted_indicators = r._sorted_indicators

InitCurve ==
    /\ InitRegistry
    /\ hashOrder = <<"c1", "c2">>
    /\ engines = [e \in Engines |-> NoEngine]
    /\ \E merged_df \in MergedTables, commission \in CurveCommissions :
          call = [op |-> "input", fn |-> "_calculate_funding_curve",
                  merged_df |-> merged_df, commission |-> commission]
    /\ outcome = NoOutcome

NextCurve == CalculateFundingCurve

SpecCurve == InitCurve /\ [][NextCurve]_vars

\* the formulas of the claim, row by row
price_return(m, t) == IF t = 1 THEN Zero ELSE RSub(RDiv(m[t].close, m[t - 1].close), One)
previous_position(m, t) == IF t = 1 THEN Zero ELSE m[t - 1].position
position_change(m, t) ==
    IF t = 1 THEN Zero ELSE RAbs(RSub(m[t].position, m[t - 1].position))
net_return(m, c, t) ==
    RSub(RMul(price_return(m, t), previous_position(m, t)), RMul(position_change(m, t), c))

RECURSIVE running_product(_, _, _)
running_product(m, c, t) ==
    IF t = 0 THEN One ELSE RMul(running_product(m, c, t - 1), RAdd(One, net_return(m, c, t)))

\* C5: row t of the builder's table holds
\* net_return[t] = price_return[t] * position[t-1] - |position[t] - position[t-1]| * commission
\* and funding_curve[t] = the product of (1 + net_return[k]) for k up to t.
C5_FundingCurveFormula ==
    call.op = "_calculate_funding_curve" =>
        LET m == call.merged_df
            c == call.commission.v
            table == outcome.result
        IN  /\ Len(table) = Len(m)
            /\ \A t \in 1..Len(m) :
                  /\ table[t].time = m[t].time
                  /\ table[t].returns = net_return(m, c, t)
                  /\ table[t].funding_curve = running_product(m, c, t)

\* close = [100, 110, 99], position = [1, 1, 1], commission = 0
C5_Witness ==
    /\ call.op = "_calculate_funding_curve"
    /\ call.merged_df = <<Row(1, R(100, 1), One), Row(2, R(110, 1), One), Row(3, R(99, 1), One)>>
    /\ call.commission = PyFloat(Zero)
    /\ outcome.result =
          <<[time |-> 1, funding_curve |-> One, returns |-> Zero],
            [time |-> 2, funding_curve |-> R(11, 10), returns |-> R(1, 10)],
            [time |-> 3, funding_curve |-> R(99, 100), returns |-> R(-1, 10)]>>

\* C12: for every table and every commission the constructor accepts, the first
\* row of the builder's table has returns = 0 and funding_curve = 1 + returns = 1.
\* (Every operation of the builder that yields a null is followed by
\* fill_null(0), so no row of the model's table holds a missing value.)
C12_FirstRowIsBase ==
    (call.op = "_calculate_funding_curve" /\ Len(call.merged_df) > 0
        /\ validate_commission(call.commission).error = "none")
    => LET table == outcome.result
       IN  /\ table[1].returns = Zero
           /\ table[1].funding_curve = RAdd(One, table[1].returns)
           /\ table[1].funding_curve = One

\* the number of rows up to t whose net return is below -1
RECURSIVE Flips(_, _)
Flips(table, t) ==
    IF t = 0 THEN 0
    ELSE Flips(table, t - 1) + (IF RLt(table[t].returns, R(-1, 1)) THEN 1 ELSE 0)

\* C13: funding_curve[t] > 0 when every net return up to t is > -1; in general
\* (no NaN among them) the curve is 0 from the first row whose net return is -1
\* on, and otherwise negative exactly when an odd number of rows up to t had a
\* net return below -1.
C13_CurveSign ==
    call.op = "_calculate_funding_curve" =>
        LET table == outcome.result
        IN  \A t \in 1..Len(table) :
               /\ (\A k \in 1..t : RGt(table[k].returns, R(-1, 1)))
                      => RGt(table[t].funding_curve, Zero)
               /\ (\A k \in 1..t : ~IsNaN(table[k].returns))
                      => /\ table[t].funding_curve = Zero
                              <=> \E k \in 1..t : table[k].returns = R(-1, 1)
                         /\ RLt(table[t].funding_curve, Zero)
                              <=> /\ \A k \in 1..t : table[k].returns # R(-1, 1)
                                  /\ Flips(table, t) % 2 = 1

\* a curve that is positive up to the row before the first net return <= -1
C13_Witness ==
    /\ call.op = "_calculate_funding_curve"
    /\ \E t \in 2..Len(outcome.result) :
          /\ \A k \in 1..(t - 1) : RGt(outcome.result[k].returns, R(-1, 1))
          /\ RLt(outcome.result[t - 1].funding_curve, One)
          /\ RGt(outcome.result[t - 1].funding_curve, Zero)
          /\ RLt(outcome.result[t].returns, R(-1, 1))
          /\ RLt(outcome.result[t].funding_curve, Zero)

----------------------------------------------------------------------------
(* The input specification: validate_and_convert_input, the constructor    *)
(* and run on every small table                                             *)

InputTimes == 1..3
InputCloses == {R(100, 1), R(110, 1)}
InputPositions == {R(-3, 2), R(-1, 1), Zero, One, R(3, 2)}

InputRows(data_type) ==
    IF data_type = "close"
    THEN {Row(t, c, Zero) : t \in InputTimes, c \in InputCloses}
    ELSE {Row(t, Zero, p) : t \in InputTimes, p \in InputPositions}

\* tables with and without each required column, with a temporal time column or not
InputFrames(data_type) ==
    {DataFrame(cols, temp, rows) :
        cols \in {{"time", data_type}, {"time"}, {data_type}},
        temp \in BOOLEAN,
        rows \in SeqsUpTo(InputRows(data_type), MaxInputRows)}

DefaultEngine ==
    [constructed |-> TRUE, close_df |-> ExampleClose, commission |-> PyFloat(Zero),
     annual_trading_days |-> PyInt(252), indicators |-> All,
     sorted_indicators |-> registry_init(<<"c1", "c2">>)._sorted_indicators]

\* e1 = PositionBacktester(ExampleClose) has been constructed
InitInput ==
    /\ InitRegistry
    /\ hashOrder = <<"c1", "c2">>
    /\ engines = [e \in Engines |-> DefaultEngine]
    /\ \E data_type \in {"close", "position"} :
          \E df \in InputFrames(data_type) :
             call = [op |-> "input", fn |-> "validate_and_convert_input",
                     df |-> df, data_type |-> data_type]
    /\ outcome = NoOutcome

\* the table drawn goes to the validator, or as close table to the
\* constructor, or as position table to run
NextInput ==
    \/ ValidateInput
    \/ \E e \in Engines :
          /\ call.op = "input" /\ call.data_type = "close"
          /\ Construct(e, call.df, PyFloat(Zero), PyInt(252), All)
    \/ \E e \in Engines :
          /\ call.op = "input" /\ call.data_type = "position"
          /\ Run(e, call.df)

SpecInput == InitInput /\ [][NextInput]_vars

\* the three reasons the claim gives for a failure
InputInvalid(df, data_type) ==
    \/ REQUIRED_COLUMNS(data_type) \ df.columns # {}
    \/ ~df.temporal
    \/ /\ data_type = "position"
       /\ \E i \in 1..Len(df.rows) :
             RLt(df.rows[i].position, R(-1, 1)) \/ RGt(df.rows[i].position, One)

\* s is t with its rows in another order
SameRows(s, t) ==
    /\ Len(s) = Len(t)
    /\ \A r \in Range(s) \cup Range(t) :
          Cardinality({i \in 1..Len(s) : s[i] = r}) = Cardinality({i \in 1..Len(t) : t[i] = r})

\* C8: validate_and_convert_input fails exactly when a required column is
\* absent, the time column is not temporal, or a position lies outside
\* [-1, 1]; otherwise it returns the rows sorted ascending by time.  The
\* constructor (close table) and run (position table) raise ValueError for
\* exactly these tables.
C8_InputValidation ==
    /\ call.op = "validate_and_convert_input" =>
          IF InputInvalid(call.df, call.data_type)
          THEN outcome.error = "ValidationError"
          ELSE /\ outcome.error = "none"
               /\ is_sorted(outcome.result.rows)
               /\ SameRows(outcome.result.rows, call.df.rows)
               /\ outcome.result.columns = call.df.columns
    /\ call.op = "init" =>
          IF InputInvalid(call.close_df, "close")
          THEN outcome.error = "ValueError" /\ engines[call.engine] = DefaultEngine
          ELSE /\ outcome.error = "none"
               /\ is_sorted(engines[call.engine].close_df.rows)
               /\ SameRows(engines[call.engine].close_df.rows, call.close_df.rows)
    /\ call.op = "run" =>
          IF InputInvalid(call.position_df, "position")
          THEN outcome.error = "ValueError" /\ outcome.stages = <<"validate_input">>
          ELSE outcome.stages # <<"validate_input">>

\* an unsorted position table holding -1 and 1 has been accepted and sorted
C8_Witness ==
    /\ call.op = "validate_and_convert_input"
    /\ call.data_type = "position"
    /\ ~is_sorted(call.df.rows)
    /\ {R(-1, 1), One} \subseteq {call.df.rows[i].position : i \in 1..Len(call.df.rows)}
    /\ outcome.error = "none"
    /\ is_sorted(outcome.result.rows)

----------------------------------------------------------------------------
(* The parameter specification: the constructor on every commission and    *)
(* annual_trading_days                                                      *)

ParamCommissions ==
    {PyInt(-1), PyInt(0), PyInt(1), PyInt(2), PyFloat(R(-1, 1000)), PyFloat(R(1, 2)),
     PyFloat(R(1001, 1000)), PyFloat(NaN), PyStr}

ParamDays ==
    {PyInt(-1), PyInt(0), PyInt(1), PyInt(252), PyInt(365), PyInt(366),
     PyFloat(R(252, 1)), PyStr}

InitParams ==
    /\ InitRegistry
    /\ hashOrder = <<"c1", "c2">>
    /\ engines = [e \in Engines |-> NoEngine]
    /\ \E commission \in ParamCommissions, annual_trading_days \in ParamDays :
          call = [op |-> "input", fn |-> "__init__", commission |-> commission,
                  annual_trading_days |-> annual_trading_days]
    /\ outcome = NoOutcome

NextParams ==
    \E e \in Engines :
        /\ call.op = "input"
        /\ Construct(e, ExampleClose, call.commission, call.annual_trading_days, All)

SpecParams == InitParams /\ [][NextParams]_vars

RLe(x, y) == ~IsNaN(x) /\ ~IsNaN(y) /\ x[1] * y[2] <= y[1] * x[2]

\* C9: the constructor creates the engine exactly when commission is a number
\* with 0 <= commission <= 1 and annual_trading_days is an integer with
\* 1 <= annual_trading_days <= 365; otherwise it raises ValueError and creates
\* no engine.
C9_NumericParameters ==
    call.op = "init" =>
        LET c == call.commission
            d == call.annual_trading_days
            valid == /\ c.py \in {"int", "float"}
                     /\ RLe(Zero, c.v) /\ RLe(c.v, One)
                     /\ d.py = "int"
                     /\ RLe(One, d.v) /\ RLe(d.v, R(365, 1))
        IN  IF valid
            THEN outcome.error = "none" /\ engines[call.engine].constructed
            ELSE outcome.error = "ValueError" /\ ~engines[call.engine].constructed

----------------------------------------------------------------------------
(* The specification of runs on two engines over one registry content *)

RunEngines == {"e1", "e2"}

RunCloseFrames ==
    {ExampleClose,
     CloseFrame(<<CloseRow(1, 100), CloseRow(2, 99), CloseRow(3, 110)>>)}

RunSelections == {All, NameList(<<"sharpe_ratio">>)}

InitRuns ==
    /\ InitRegistry
    /\ engines = [e \in RunEngines |-> NoEngine]
    /\ call = NoCall
    /\ outcome = NoOutcome

NextRuns ==
    \/ \E e \in RunEngines, close_df \in RunCloseFrames, indicators \in RunSelections :
          Construct(e, close_df, PyFloat(R(1, 10)), PyInt(252), indicators)
    \/ \E e \in RunEngines, position_df \in EnginePositionFrames : Run(e, position_df)

SpecRuns == InitRuns /\ [][NextRuns]_vars

\* what run(p) returns on an engine constructed just now with the arguments self
\* was constructed with
FreshRun(self, position_df) ==
    UNION {run(f.value, position_df, _indicators) :
             f \in {g \in init(self.close_df, self.commission, self.annual_trading_days,
                               self.indicators, _indicators, _sorted_indicators, hashOrder) :
                      g.error = "none"}}

\* C11: whatever runs were made before, on this engine or another, a run returns
\* what it returns on an engine constructed just now with the same arguments, and
\* it leaves what every later run on every engine returns as it was.
C11_FreshContextPerRun ==
    [][call'.op = "run"
       => /\ outcome' \in FreshRun(engines[call'.engine], call'.position_df)
          /\ \A e \in RunEngines, p \in EnginePositionFrames :
                run(engines'[e], p, _indicators') = run(engines[e], p, _indicators)]_vars

C11_Witness ==
    /\ call.op = "run"
    /\ outcome.error = "none"
    /\ \A e \in RunEngines : engines[e].constructed
    /\ engines["e1"].close_df # engines["e2"].close_df
    /\ \E p \in EnginePositionFrames :
          \E o \in run(engines[call.engine], p, _indicators) :
              o.error = "none" /\ o.result # outcome.result

----------------------------------------------------------------------------
(* The specification of the built-in indicators: calculate on the contexts *)
(* of runs over small tables                                               *)

ContextCloses == {0, 100, 110}
ContextPositions == {Zero, One}
\* the commissions the constructor accepts; NaN is one of them
ContextCommissions == {Zero, NaN}

\* the curve [1.0, 1.10, 0.99]: the example prices held with position 1
ExampleTable == <<Row(1, R(100, 1), One), Row(2, R(110, 1), One), Row(3, R(99, 1), One)>>

ContextTables ==
    {ExampleTable} \cup
    UNION {{[t \in 1..n |-> Row(t, R(c[t], 1), p[t])] :
               c \in [1..n -> ContextCloses], p \in [1..n -> ContextPositions]} :
           n \in 0..MaxContextRows}

\* the context of a run on the merged table; for a table of fewer than two rows,
\* on which _prepare_cache raises, a context with the same entries made by hand
ContextOf(merged, commission, annual_trading_days) ==
    LET merged_df == JoinCurve(merged, calculate_funding_curve(merged, commission))
        cache == prepare_cache(merged_df, annual_trading_days)
    IN  IF cache.error = "none" THEN cache.value
        ELSE [merged_df |-> merged_df, annual_trading_days |-> annual_trading_days,
              total_days |-> One, periods_per_day |-> One, values |-> <<>>]

\* the orders an engine evaluates in: every indicator, or one and its requires
ContextOrders ==
    {_sorted_indicators} \cup
    {validate_indicators(NameList(<<n>>), _indicators, _sorted_indicators, hashOrder).value :
        n \in BuiltinNames}

InitIndicators ==
    /\ InitRegistry
    /\ hashOrder = <<"c1", "c2">>
    /\ engines = [e \in Engines |-> NoEngine]
    /\ \E merged \in ContextTables, commission \in ContextCommissions,
          todo \in ContextOrders :
          call = [op |-> "context", name |-> "", before |-> <<>>,
                  cache |-> ContextOf(merged, commission, R(252, 1)), todo |-> todo]
    /\ outcome = NoOutcome

NextIndicators == \E name \in BuiltinNames : Calculate(name)

SpecIndicators == InitIndicators /\ [][NextIndicators]_vars

\* a first calculate of the indicator, on a context that holds its requires
Computes(name) ==
    /\ call.op = "calculate"
    /\ call.name = name
    /\ ~InCache(call.before, name)
    /\ Lookup(_indicators, name).requires \subseteq DOMAIN call.before.values

\* C14: on every context whose table is not empty, total_return is
\* funding_curve[last] / funding_curve[0] - 1, and it is 0 for a curve of a
\* single row and for a constant curve
C14_TotalReturn ==
    (Computes("total_return") /\ Len(call.before.merged_df) > 0)
    => LET curve == Column(call.before.merged_df, "funding_curve")
       IN  /\ outcome.error = "none"
           /\ outcome.result = Exact(RSub(RDiv(curve[Len(curve)], curve[1]), One))
           /\ Len(curve) = 1 => outcome.result = Exact(Zero)
           /\ (\A t \in 1..Len(curve) : curve[t] = curve[1]) => outcome.result = Exact(Zero)

\* the curve never falls from one row to the next
NonDecreasing(curve) ==
    \A t \in 1..(Len(curve) - 1) :
        ~IsNaN(curve[t]) /\ ~IsNaN(curve[t + 1]) /\ ~RLt(curve[t + 1], curve[t])

\* C15: for every funding curve the builder produces, max_drawdown is at least 0,
\* and it is 0 exactly when the curve is non-decreasing over all rows
C15_MaxDrawdown ==
    (Computes("max_drawdown") /\ Len(call.before.merged_df) > 0)
    => LET curve == Column(call.before.merged_df, "funding_curve")
       IN  /\ outcome.error = "none"
           /\ ~IsNaN(outcome.result.v) /\ ~RLt(outcome.result.v, Zero)
           /\ outcome.result.v = Zero <=> NonDecreasing(curve)

\* C16: sharpe_ratio is the context's annual_return divided by its volatility when
\* the volatility is not 0 and exactly 0 when it is 0, with no error and no NaN
C16_SharpeRatio ==
    Computes("sharpe_ratio")
    => LET annual_return == call.before.values["annual_return"]
           volatility == call.before.values["volatility"]
       IN  /\ outcome.error = "none"
           /\ outcome.result = IF volatility = Exact(Zero) THEN Exact(Zero)
                                ELSE Div(annual_return, volatility)
           /\ outcome.result # Exact(NaN)

\* C17: profit_loss_ratio is mean(positive returns) / |mean(negative returns)| when
\* some period loses, +infinity when none loses and some period wins, and 0 when
\* no period wins or loses
C17_ProfitLossRatio ==
    Computes("profit_loss_ratio")
    => LET returns == Column(call.before.merged_df, "returns")
           winners == Positive(returns)
           losers == Negative(returns)
       IN  /\ outcome.error = "none"
           /\ (losers # <<>> /\ winners # <<>>)
                 => outcome.result = Exact(RDiv(series_mean(winners), RAbs(series_mean(losers))))
           /\ (losers = <<>> /\ winners # <<>>) => outcome.result = Exact(Inf)
           /\ (losers = <<>> /\ winners = <<>>) => outcome.result = Exact(Zero)

----------------------------------------------------------------------------
(* The result object a caller keeps *)

\* the accessors of BacktestResult: each returns the mapping the result holds,
\* not a copy of it
dataframes(result) == result._dataframes
indicator_values(result) == result._indicator_values
formatted_indicator_values(result) == result._formatted_indicator_values

ResultFields == {"_dataframes", "_indicator_values", "_formatted_indicator_values"}
WrittenKeys == {"total_return", "note"}
\* the custom indicators registered while the result is kept
ResultClasses == {IndicatorClass("c1", {}, "float", {}), IndicatorClass("c2", {}, "float", {})}

InitResult ==
    /\ InitRegistry
    /\ \E c \in init(ExampleClose, PyFloat(R(1, 10)), PyInt(252), All,
                      _indicators, _sorted_indicators, hashOrder) :
          engines = [e \in Engines |-> c.value]
    /\ call = [op |-> "init", kept |-> FALSE, result |-> NoResult]
    /\ outcome = NoOutcome

\* result = e.run(position_df): the caller keeps the object run returned
KeepRun(e, position_df) ==
    /\ ~call.kept
    /\ \E o \in run(engines[e], position_df, _indicators) :
          /\ o.error = "none"
          /\ outcome' = o
          /\ engines' = [engines EXCEPT ![e] = run_self(@, o)]
          /\ call' = [op |-> "run", kept |-> TRUE, result |-> o.result]
    /\ UNCHANGED <<_indicators, _sorted_indicators, hashOrder>>

\* a later e.run(position_df): it builds the mappings of its own result anew
LaterRun(e, position_df) ==
    /\ call.kept
    /\ \E o \in run(engines[e], position_df, _indicators) :
          /\ outcome' = o
          /\ engines' = [engines EXCEPT ![e] = run_self(@, o)]
    /\ call' = [call EXCEPT !.op = "run"]
    /\ UNCHANGED <<_indicators, _sorted_indicators, hashOrder>>

\* a later indicator_registry.register(indicator) or e.add_indicator(indicator)
LaterRegister(indicator) ==
    /\ call.kept
    /\ LET r == register(_indicators, _sorted_indicators, indicator, TRUE, hashOrder)
       IN  /\ _indicators' = r._indicators
           /\ _sorted_indicators' = r._sorted_indicators
    /\ call' = [call EXCEPT !.op = "register"]
    /\ UNCHANGED <<hashOrder, engines, outcome>>

\* result.indicator_values[key] = value, and the same through the two other
\* accessors: the write lands in the mapping the result holds
WriteThrough(field, key) ==
    /\ call.kept
    /\ call' = [call EXCEPT !.op = "write", !.result[field] = Store(@, key, Exact(Zero))]
    /\ UNCHANGED <<_indicators, _sorted_indicators, hashOrder, engines, outcome>>

NextResult ==
    \/ \E e \in Engines, position_df \in EnginePositionFrames : KeepRun(e, position_df)
    \/ \E e \in Engines, position_df \in EnginePositionFrames : LaterRun(e, position_df)
    \/ \E indicator \in ResultClasses : LaterRegister(indicator)
    \/ \E field \in ResultFields, key \in WrittenKeys : WriteThrough(field, key)

SpecResult == InitResult /\ [][NextResult]_vars

\* C21: once run has returned a result, no later operation - a run, a register,
\* a write through a mapping one of its accessors handed out - changes what
\* its accessors return
C21_ResultReadOnly ==
    [][(call.kept /\ call'.kept)
       => /\ dataframes(call'.result) = dataframes(call.result)
          /\ indicator_values(call'.result) = indicator_values(call.result)
          /\ formatted_indicator_values(call'.result)
                = formatted_indicator_values(call.result)]_vars

----------------------------------------------------------------------------
(* Runs over every small pair of tables: rows in any order, timestamps repeated *)

TableTimes == 1..2
TablePositions == {R(1, 2), One}

\* the close of a timestamp
TableClose(t) == 90 + 10 * t

TableCloseFrames ==
    {CloseFrame(rows) :
        rows \in UNION {[1..n -> {CloseRow(t, TableClose(t)) : t \in TableTimes}] :
                          n \in 1..MaxTableRows}}

TablePositionFrames ==
    {PositionFrame(rows) :
        rows \in UNION {[1..n -> {Row(t, Zero, p) : t \in TableTimes, p \in TablePositions}] :
                          n \in 1..MaxTableRows}}

InitTables ==
    /\ InitRegistry
    /\ engines = [e \in Engines |-> NoEngine]
    /\ call = NoCall
    /\ outcome = NoOutcome

NextTables ==
    \/ \E e \in Engines, close_df \in TableCloseFrames :
          Construct(e, close_df, PyFloat(R(1, 10)), PyInt(252), All)
    \/ \E e \in Engines, position_df \in TablePositionFrames : Run(e, position_df)

SpecTables == InitTables /\ [][NextTables]_vars

\* C22: a run whose tables pass every validator completes and returns a result,
\* whatever the number of rows from one upward
C22_ValidRunCompletes ==
    (call.op = "run" /\ "merge" \in Range(outcome.stages)) => outcome.error = "none"

----------------------------------------------------------------------------
(* Cyclic requires among custom indicators *)

\* C24: a register call that leaves cyclic requires in the registry (A requires
\* B and B requires A, or A requires A) returns: the visit marks a name before
\* it descends, so each registered name is visited once and sorted_indicators
\* holds each registered name exactly once.
C24_CyclicRegisterReturns ==
    (call.op = "register" /\ ~Acyclic(_indicators)) =>
        /\ Range(_sorted_indicators) = Keys(_indicators)
        /\ Len(_sorted_indicators) = Cardinality(Keys(_indicators))

\* c1 requires c2 and c2 requires c1, both registered
C24_Witness ==
    /\ call.op = "register"
    /\ {"c1", "c2"} \subseteq Keys(_indicators)
    /\ "c2" \in Lookup(_indicators, "c1").requires
    /\ "c1" \in Lookup(_indicators, "c2").requires

\* the statement that no register call returns once the requires are cyclic
C24_CyclicRegisterNeverReturns ==
    call.op = "register" => Acyclic(_indicators)

----------------------------------------------------------------------------
(* Requirements that are not registered *)

\* C25: a register call lists the registered indicator in sorted_indicators
\* whatever its requires name, and constructing an engine on a valid close
\* table with a list of registered names succeeds even when one of them
\* requires a name that is not registered; construction fails on the selection
\* only when a name of the list itself is unregistered.
C25_UnregisteredRequiresTolerated ==
    /\ call.op = "register" => call.indicator.name \in Range(_sorted_indicators)
    /\ (call.op = "init" /\ call.indicators.py = "list" /\ call.close_df = ExampleClose) =>
          (outcome.error = "none" <=> Range(call.indicators.v) \subseteq Keys(_indicators))

----------------------------------------------------------------------------
(* Registration order and the sorted order *)

\* a was first registered before b: its key is earlier in the dict
RegisteredBefore(a, b) ==
    Position(KeySeq(_indicators), a) < Position(KeySeq(_indicators), b)

SortedBefore(a, b) ==
    Position(_sorted_indicators, a) < Position(_sorted_indicators, b)

Independent(a, b) ==
    /\ a # b
    /\ a \notin Closure(Requires(_indicators, b), _indicators)
    /\ b \notin Closure(Requires(_indicators, a), _indicators)

\* C26 as stated: of two registered indicators neither of which transitively
\* requires the other, the one registered earlier is earlier in
\* sorted_indicators.
C26_IndependentKeepRegistrationOrder ==
    \A a, b \in Keys(_indicators) :
        (Independent(a, b) /\ RegisteredBefore(a, b)) => SortedBefore(a, b)

\* C26: an indicator b comes before an indicator a registered earlier only
\* when b is transitively required by an indicator registered no later than
\* a; every other pair keeps its registration order.
C26_RegistrationOrderUnlessRequired ==
    \A a, b \in Keys(_indicators) :
        (RegisteredBefore(a, b) /\ SortedBefore(b, a)) =>
            \E n \in Keys(_indicators) :
                /\ n = a \/ RegisteredBefore(n, a)
                /\ b \in Closure(Requires(_indicators, n), _indicators)

\* a custom indicator registered after another one it does not require and
\* that does not require it, while a built-in registered before both requires it
C26_Witness ==
    /\ call.op = "register"
    /\ {"c1", "c2"} \subseteq Keys(_indicators)
    /\ Independent("c1", "c2")
    /\ \E a \in Keys(_indicators) \ CustomNames :
          /\ Independent(a, "total_return")
          /\ RegisteredBefore(a, "total_return")
          /\ SortedBefore("total_return", a)

----------------------------------------------------------------------------
(* The registry's two listings *)

NameRank ==
    [annual_return |-> 1, avg_drawdown |-> 2, c1 |-> 3, c2 |-> 4, ghost |-> 5,
     max_drawdown |-> 6, max_drawdown_duration |-> 7, profit_loss_ratio |-> 8,
     sharpe_ratio |-> 9, total_return |-> 10, volatility |-> 11, win_rate |-> 12]

\* C27: after initialization and after every register call sorted_indicators
\* holds each registered name exactly once and no other name; the registry
\* holds one entry per name, the class registered last under it; and
\* available_indicators is the registered names in ascending order.
C27_SortedIsPermutation ==
    /\ Range(_sorted_indicators) = Keys(_indicators)
    /\ Len(_sorted_indicators) = Cardinality(Keys(_indicators))
    /\ Len(_indicators) = Cardinality(Keys(_indicators))
    /\ call.op = "register" =>
          \A i \in 1..Len(_indicators) :
              _indicators[i].name = call.indicator.name => _indicators[i] = call.indicator
    /\ LET available == available_indicators(_indicators)
       IN  /\ Range(available) = Keys(_indicators)
           /\ \A i \in 1..(Len(available) - 1) :
                  NameRank[available[i]] < NameRank[available[i + 1]]

\* c1 was registered before c2 and has just been registered again, with other
\* requires than a class without requirements has
C27_Witness ==
    /\ call.op = "register"
    /\ call.indicator.name = "c1"
    /\ call.indicator.requires # {}
    /\ {"c1", "c2"} \subseteq Keys(_indicators)
    /\ Position(KeySeq(_indicators), "c1") < Position(KeySeq(_indicators), "c2")

----------------------------------------------------------------------------
(* The rows of the table a run returns *)

\* C28: the merged table of a run on accepted tables, which carries the
\* funding curve, has one row per distinct timestamp of the close table, in
\* strictly ascending order of time.
C28_OneRowPerTimestamp ==
    (call.op = "run" /\ outcome.error = "none") =>
        LET merged_df == dataframes(outcome.result)["merged_df"]
        IN  /\ TimesOf(merged_df) = TimesOf(engines[call.engine].close_df.rows)
            /\ \A i \in 1..(Len(merged_df) - 1) : merged_df[i].time < merged_df[i + 1].time

----------------------------------------------------------------------------
(* Row order of the input tables *)

\* the tables with the rows of df in any order
Reordered(df) ==
    {[df EXCEPT !.rows = [i \in 1..Len(df.rows) |-> df.rows[p[i]]]] :
        p \in Perms(1..Len(df.rows))}

----------------------------------------------------------------------------
(* The duration of the maximum drawdown *)

\* every value of the curve is a number
AllNumbers(curve) == \A t \in 1..Len(curve) : ~IsNaN(curve[t]) /\ ~IsInf(curve[t])

\* the highest value of the curve up to row t
RunningPeak(curve, t) ==
    CHOOSE x \in {curve[j] : j \in 1..t} : \A j \in 1..t : ~RLt(x, curve[j])

DrawdownAt(curve, t) ==
    RDiv(RSub(RunningPeak(curve, t), curve[t]), RunningPeak(curve, t))

\* the first row at which the drawdown is the largest of all rows
MaxDrawdownPoint(curve) ==
    CHOOSE i \in 1..Len(curve) :
        /\ \A j \in 1..Len(curve) : ~RLt(DrawdownAt(curve, i), DrawdownAt(curve, j))
        /\ \A j \in 1..(i - 1) : RLt(DrawdownAt(curve, j), DrawdownAt(curve, i))

\* the last row, up to row i, at which the curve is at its running peak
PeakBefore(curve, i) ==
    CHOOSE j \in 1..i :
        /\ curve[j] = RunningPeak(curve, j)
        /\ \A k \in (j + 1)..i : curve[k] # RunningPeak(curve, k)

\* C30: on a curve of numbers, max_drawdown_duration is the days from the most
\* recent row, at or before the point of maximum drawdown, at which the curve
\* equals its running peak, to the first row at which the drawdown attains its
\* maximum; it is not negative, and it is 0 when the curve is non-decreasing.
C30_MaxDrawdownDuration ==
    (/\ Computes("max_drawdown_duration")
     /\ Len(call.before.merged_df) > 0
     /\ AllNumbers(Column(call.before.merged_df, "funding_curve")))
    => LET df == call.before.merged_df
           curve == Column(df, "funding_curve")
           end == MaxDrawdownPoint(curve)
           start == PeakBefore(curve, end)
       IN  /\ outcome.error = "none"
           /\ outcome.result = Exact(R(df[end].time - df[start].time, 1))
           /\ ~RLt(outcome.result.v, Zero)
           /\ NonDecreasing(curve) => outcome.result.v = Zero

\* the example curve [1.0, 1.10, 0.99]: the peak is the second row, not the
\* first, and the maximum drawdown is reached one day later
C30_Witness ==
    /\ Computes("max_drawdown_duration")
    /\ Len(call.before.merged_df) = 3
    /\ AllNumbers(Column(call.before.merged_df, "funding_curve"))
    /\ MaxDrawdownPoint(Column(call.before.merged_df, "funding_curve")) = 3
    /\ PeakBefore(Column(call.before.merged_df, "funding_curve"), 3) = 2
    /\ outcome.result = Exact(One)

====
